---- MODULE Spec2Model ----
(***************************************************************************)
(* Model of pdf_protect.py: the three validators, protect_pdf as the       *)
(* sequence of steps its body runs, and the CLI main() around it.          *)
(*                                                                         *)
(* A path is a record [dir, name]; the file name is a sequence of          *)
(* one-character strings so that Path.suffix and str.lower are computed    *)
(* the way pathlib and str compute them.  A password is a sequence of      *)
(* characters.  The filesystem maps a path to a node (absent, directory,   *)
(* or file with its content).                                              *)
(***************************************************************************)
EXTENDS Integers, Sequences, FiniteSets, TLC

\* ------------------------------------------------------------------ bounds
MaxPages == 2
MaxPwLen == 4
MaxProbeLen == 6

\* validate_password: len(password) < 4
MinPasswordLen == 4

\* ------------------------------------------------------------- exceptions
NoExc == [kind |-> "none", msg |-> "none"]
Raise(kind, msg) == [kind |-> kind, msg |-> msg]

\* The classes an exception kind is an instance of (Python 3 hierarchy;
\* IOError is an alias of OSError, PdfReadError derives from Exception).
Bases(kind) ==
    CASE kind = "FileNotFoundError" -> {"FileNotFoundError", "OSError", "Exception"}
      [] kind = "PermissionError"   -> {"PermissionError", "OSError", "Exception"}
      [] kind = "OSError"           -> {"OSError", "Exception"}
      [] kind = "ValueError"        -> {"ValueError", "Exception"}
      [] kind = "RuntimeError"      -> {"RuntimeError", "Exception"}
      [] kind = "PdfReadError"      -> {"PdfReadError", "Exception"}
      [] OTHER                      -> {}

IsInstance(e, cls) == cls \in Bases(e.kind)

\* --------------------------------------------------------- strings, paths
LowerChar(c) ==
    CASE c = "P" -> "p"
      [] c = "D" -> "d"
      [] c = "F" -> "f"
      [] c = "A" -> "a"
      [] OTHER   -> c

\* str.lower()
Lower(s) == [i \in 1..Len(s) |-> LowerChar(s[i])]

\* str.rfind("."), 1-based; 0 when there is no dot
RFindDot(s) ==
    LET dots == {i \in 1..Len(s) : s[i] = "."}
    IN  IF dots = {} THEN 0 ELSE CHOOSE i \in dots : \A j \in dots : j <= i

\* PurePath.suffix: the part of the name from its last dot on, unless that
\* dot is the first or the last character of the name
Suffix(path) ==
    LET name == path.name
        i    == RFindDot(name)
    IN  IF 1 < i /\ i < Len(name) THEN SubSeq(name, i, Len(name)) ELSE <<>>

DotPdf == <<".", "p", "d", "f">>

\* The directories of the environment: "work" exists and is writable,
\* "locked" exists and is not writable, "gone" does not exist.
Dirs == {"work", "locked", "gone"}
DirExists(d) == d # "gone"
DirWritable(d) == d = "work"

\* ------------------------------------------------------------- file nodes
NoData ==
    [fmt |-> "none", encrypted |-> FALSE, pages |-> <<>>, meta |-> FALSE,
     upw |-> <<>>, opw |-> <<>>]

\* A file's bytes, by what they are: "empty" (0 bytes), "garbage" (PdfReader
\* raises on them), "damaged" (PdfReader opens them, the page tree cannot be
\* read), "pdf" (a document), "partial" (a write that did not complete).
Bytes(fmt) == [NoData EXCEPT !.fmt = fmt]
Document(pages, meta, encrypted, upw, opw) ==
    [fmt |-> "pdf", encrypted |-> encrypted, pages |-> pages, meta |-> meta,
     upw |-> upw, opw |-> opw]

Absent == [kind |-> "absent", data |-> NoData]
Directory == [kind |-> "dir", data |-> NoData]
File(data) == [kind |-> "file", data |-> data]

\* Path.exists(), Path.is_file(), Path.stat().st_size == 0
Exists(files, path) == DirExists(path.dir) /\ files[path].kind # "absent"
IsFile(files, path) == Exists(files, path) /\ files[path].kind = "file"
IsEmptyFile(files, path) == files[path].data.fmt = "empty"

\* ------------------------------------------------------------- validators
\* validate_input_file with the extension test left out
ValidateInputFileNoSuffixCheck(files, path) ==
    IF ~Exists(files, path) THEN Raise("FileNotFoundError", "Input file not found")
    ELSE IF ~IsFile(files, path) THEN Raise("ValueError", "Path is not a file")
    ELSE IF IsEmptyFile(files, path) THEN Raise("ValueError", "Input file is empty")
    ELSE NoExc

validate_input_file(files, path) ==
    IF ~Exists(files, path) THEN Raise("FileNotFoundError", "Input file not found")
    ELSE IF ~IsFile(files, path) THEN Raise("ValueError", "Path is not a file")
    ELSE IF Lower(Suffix(path)) # DotPdf
         THEN Raise("ValueError", "Input file does not have a .pdf extension")
    ELSE IF IsEmptyFile(files, path) THEN Raise("ValueError", "Input file is empty")
    ELSE NoExc

validate_output_path(path) ==
    IF Lower(Suffix(path)) # DotPdf
    THEN Raise("ValueError", "Output file must have a .pdf extension")
    ELSE IF ~DirExists(path.dir)
         THEN Raise("FileNotFoundError", "Output directory does not exist")
    ELSE IF ~DirWritable(path.dir)
         THEN Raise("PermissionError", "No write permission for directory")
    ELSE NoExc

\* validate_password with <= in place of <
ValidatePasswordOffByOne(password) ==
    IF password = <<>> THEN Raise("ValueError", "Password cannot be empty.")
    ELSE IF Len(password) <= MinPasswordLen
         THEN Raise("ValueError", "Password must be at least 4 characters long.")
    ELSE NoExc

validate_password(password) ==
    IF password = <<>> THEN Raise("ValueError", "Password cannot be empty.")
    ELSE IF Len(password) < MinPasswordLen
         THEN Raise("ValueError", "Password must be at least 4 characters long.")
    ELSE NoExc

\* ------------------------------------------------------------ main's inputs
NameLower == <<"a", ".", "p", "d", "f">>
NameUpper == <<"b", ".", "P", "D", "F">>
NameText  == <<"c", ".", "t", "x", "t">>

Paths ==
    {[dir |-> "work", name |-> NameLower], [dir |-> "work", name |-> NameUpper],
     [dir |-> "work", name |-> NameText], [dir |-> "locked", name |-> NameLower],
     [dir |-> "gone", name |-> NameLower]}

Passwords == {[i \in 1..n |-> "x"] : n \in 0..MaxPwLen}
OwnerWords == {[i \in 1..n |-> "o"] : n \in 0..MaxPwLen}

\* --owner-password: absent (default=None) or the string given
NoOwner == [supplied |-> FALSE, pw |-> <<>>]
Owners == {NoOwner} \cup {[supplied |-> TRUE, pw |-> w] : w \in OwnerWords}

\* Python truthiness of owner_password: None and "" are false
Truthy(owner) == owner.supplied /\ owner.pw # <<>>

PageSeqs ==
    UNION {{s \in [1..n -> 1..MaxPages] : \A i, j \in 1..n : s[i] = s[j] => i = j}
           : n \in 0..MaxPages}

OldPw == <<"k", "e", "y", "s">>
StaleDocument == Document(<<1>>, FALSE, FALSE, <<>>, <<>>)

InputNodes ==
    {Absent, Directory, File(Bytes("empty")), File(Bytes("garbage")),
     File(Bytes("damaged")), File(Document(<<1>>, FALSE, TRUE, OldPw, OldPw))}
    \cup {File(Document(p, m, FALSE, <<>>, <<>>)) : p \in PageSeqs, m \in BOOLEAN}

OutputNodes == {Absent, Directory, File(StaleDocument)}

RunArgs ==
    [mode : {"run"}, input : Paths, output : Paths, password : Passwords,
     owner : Owners, quiet : BOOLEAN]

\* Command lines argparse ends itself: --version, --help, a usage error
OtherArgs ==
    [mode : {"version", "help", "usage"}, input : {[dir |-> "work", name |-> NameLower]},
     output : {[dir |-> "work", name |-> NameLower]}, password : {<<>>},
     owner : {NoOwner}, quiet : {FALSE}]

\* ------------------------------------------------------------------ state
VARIABLES
    argv,            \* the parsed command line
    fs,              \* the filesystem: path -> node
    fs0,             \* the filesystem when the program started
    pc,              \* where the program is
    owner_password,  \* protect_pdf's local owner_password
    reader,          \* PdfReader: the parsed input document
    writer,          \* PdfWriter: the document being built
    total_pages,     \* protect_pdf's local total_pages
    exc,             \* the exception protect_pdf raised
    result,          \* the dict protect_pdf returned
    trace,           \* the library and I/O calls made, in order
    stdout,          \* what was printed to sys.stdout
    stderr,          \* what was printed to sys.stderr
    exit_status,     \* the process exit status, -1 while running
    probe            \* results of the validators called on their own

vars ==
    <<argv, fs, fs0, pc, owner_password, reader, writer, total_pages, exc, result,
      trace, stdout, stderr, exit_status, probe>>

NoReader == [doc |-> NoData]
NoWriter ==
    [pages |-> <<>>, meta |-> FALSE, encrypted |-> FALSE, upw |-> <<>>, opw |-> <<>>]
NoResult == [returned |-> FALSE, input_file |-> <<>>, output_file |-> <<>>,
             pages_protected |-> 0]
NoProbe == [input |-> NoExc, output |-> NoExc, password |-> NoExc, called |-> {}]

Locals ==
    /\ owner_password = argv.owner
    /\ reader = NoReader
    /\ writer = NoWriter
    /\ total_pages = 0
    /\ exc = NoExc
    /\ result = NoResult
    /\ trace = <<>>
    /\ stdout = <<>>
    /\ stderr = <<>>
    /\ exit_status = -1
    /\ probe = NoProbe

\* A filesystem holding the given nodes at the input and output paths;
\* nothing exists in a directory that does not exist.
Filesystem(domain, input, inNode, output, outNode) ==
    [p \in domain |-> IF p = input THEN inNode
                      ELSE IF p = output THEN outNode ELSE Absent]

WellFormed(files) == \A p \in DOMAIN files : ~DirExists(p.dir) => files[p] = Absent

Init ==
    /\ argv \in RunArgs \cup OtherArgs
    /\ \E inNode \in InputNodes, outNode \in OutputNodes :
          fs = Filesystem(Paths, argv.input, inNode, argv.output, outNode)
    /\ WellFormed(fs)
    /\ argv.mode # "run" => fs[argv.input] = File(StaleDocument)
    /\ fs0 = fs
    /\ pc = "parse_args"
    /\ Locals

\* ------------------------------------------------------------- protect_pdf
\* What one step of protect_pdf leaves alone unless it says otherwise
Frame(changed) ==
    /\ UNCHANGED <<argv, fs0, stdout, stderr, exit_status, probe>>
    /\ IF "fs" \in changed THEN TRUE ELSE UNCHANGED fs
    /\ IF "owner_password" \in changed THEN TRUE ELSE UNCHANGED owner_password
    /\ IF "reader" \in changed THEN TRUE ELSE UNCHANGED reader
    /\ IF "writer" \in changed THEN TRUE ELSE UNCHANGED writer
    /\ IF "total_pages" \in changed THEN TRUE ELSE UNCHANGED total_pages
    /\ IF "result" \in changed THEN TRUE ELSE UNCHANGED result
    /\ IF "trace" \in changed THEN TRUE ELSE UNCHANGED trace

\* A check: raise its exception out of protect_pdf, or go on to the next step
Check(outcome, next) ==
    IF outcome = NoExc
    THEN pc' = next /\ exc' = NoExc
    ELSE pc' = "raised" /\ exc' = outcome

\* A check whose failure is dropped: the function goes on regardless
CheckIgnored(outcome, next) == pc' = next /\ exc' = NoExc

\* in_path = validate_input_file(input_path)
ValidateInput ==
    /\ pc = "validate_input_file"
    /\ Check(validate_input_file(fs, argv.input), "validate_output_path")
    /\ Frame({})

\* validate_output_path called with its error dropped
ValidateOutputIgnored ==
    /\ pc = "validate_output_path"
    /\ CheckIgnored(validate_output_path(argv.output), "validate_password")
    /\ Frame({})

\* out_path = validate_output_path(output_path)
ValidateOutput ==
    /\ pc = "validate_output_path"
    /\ Check(validate_output_path(argv.output), "validate_password")
    /\ Frame({})

\* validate_password(user_password)
ValidateUserPassword ==
    /\ pc = "validate_password"
    /\ Check(validate_password(argv.password), "owner_password")
    /\ Frame({})

\* if owner_password: validate_password(owner_password)
\* else: owner_password = user_password
OwnerPassword ==
    /\ pc = "owner_password"
    /\ IF Truthy(owner_password)
       THEN /\ Check(validate_password(owner_password.pw), "read")
            /\ UNCHANGED owner_password
       ELSE /\ owner_password' = [supplied |-> TRUE, pw |-> argv.password]
            /\ pc' = "read"
            /\ exc' = NoExc
    /\ Frame({"owner_password"})

\* reader = PdfReader(str(in_path)); any exception becomes RuntimeError.
\* The library reads the whole file into memory here.
ReadPdf ==
    /\ pc = "read"
    /\ trace' = Append(trace, "PdfReader")
    /\ IF fs[argv.input].data.fmt \in {"pdf", "damaged"}
       THEN /\ reader' = [doc |-> fs[argv.input].data]
            /\ pc' = "is_encrypted"
            /\ exc' = NoExc
       ELSE /\ reader' = reader
            /\ pc' = "raised"
            /\ exc' = Raise("RuntimeError", "Failed to read PDF file")
    /\ Frame({"reader", "trace"})

\* protect_pdf without the is_encrypted test
CheckEncryptedSkipped ==
    /\ pc = "is_encrypted"
    /\ pc' = "total_pages"
    /\ exc' = NoExc
    /\ Frame({})

\* if reader.is_encrypted: raise ValueError
CheckEncrypted ==
    /\ pc = "is_encrypted"
    /\ Check(IF reader.doc.encrypted
             THEN Raise("ValueError", "The input PDF is already encrypted")
             ELSE NoExc, "total_pages")
    /\ Frame({})

\* protect_pdf creating the output file before the page count is tested
CountPagesTouchingOutput ==
    /\ pc = "total_pages"
    /\ IF reader.doc.fmt = "damaged"
       THEN /\ pc' = "raised"
            /\ exc' = Raise("PdfReadError", "page tree")
            /\ UNCHANGED <<total_pages, fs>>
       ELSE /\ total_pages' = Len(reader.doc.pages)
            /\ fs' = [fs EXCEPT ![argv.output] = File(Bytes("empty"))]
            /\ Check(IF Len(reader.doc.pages) = 0
                     THEN Raise("ValueError", "The PDF file has no pages")
                     ELSE NoExc, "add_page")
    /\ Frame({"total_pages", "fs"})

\* total_pages = len(reader.pages); if total_pages == 0: raise ValueError.
\* Reading the page list of a document whose page tree is broken raises the
\* library's own error.
CountPages ==
    /\ pc = "total_pages"
    /\ IF reader.doc.fmt = "damaged"
       THEN /\ pc' = "raised"
            /\ exc' = Raise("PdfReadError", "page tree")
            /\ UNCHANGED total_pages
       ELSE /\ total_pages' = Len(reader.doc.pages)
            /\ Check(IF Len(reader.doc.pages) = 0
                     THEN Raise("ValueError", "The PDF file has no pages")
                     ELSE NoExc, "add_page")
    /\ Frame({"total_pages"})

\* add_page inserting at the front
AddPageInFront(w, page) == [w EXCEPT !.pages = <<page>> \o @]

\* writer.add_page(page)
add_page(w, page) == [w EXCEPT !.pages = Append(@, page)]

\* for page in reader.pages: writer.add_page(page) -- one iteration
AddPage ==
    /\ pc = "add_page"
    /\ LET i == Len(writer.pages) + 1
       IN  /\ writer' = add_page(writer, reader.doc.pages[i])
           /\ pc' = IF i = Len(reader.doc.pages) THEN "add_metadata" ELSE "add_page"
    /\ exc' = NoExc
    /\ Frame({"writer"})

\* if reader.metadata: writer.add_metadata(reader.metadata)
AddMetadata ==
    /\ pc = "add_metadata"
    /\ writer' = IF reader.doc.meta THEN [writer EXCEPT !.meta = TRUE] ELSE writer
    /\ pc' = "encrypt"
    /\ exc' = NoExc
    /\ Frame({"writer"})

\* protect_pdf without the writer.encrypt call
EncryptSkipped ==
    /\ pc = "encrypt"
    /\ trace' = trace
    /\ writer' = writer
    /\ pc' = "write"
    /\ exc' = NoExc
    /\ Frame({"writer", "trace"})

\* writer.encrypt(user_password=user_password, owner_password=owner_password)
Encrypt ==
    /\ pc = "encrypt"
    /\ trace' = Append(trace, "encrypt")
    /\ writer' = [writer EXCEPT !.encrypted = TRUE, !.upw = argv.password,
                                !.opw = owner_password.pw]
    /\ pc' = "write"
    /\ exc' = NoExc
    /\ Frame({"writer", "trace"})

\* with open(str(out_path), "wb") as output_file: writer.write(output_file)
\* except IOError as e: raise IOError(...).  open() truncates or creates the
\* file; it fails on a directory, and may fail otherwise; the write may fail
\* part way.
WriteOutput ==
    /\ pc = "write"
    /\ \E outcome \in {"written", "open failed", "write failed"} :
          /\ fs[argv.output].kind = "dir" => outcome = "open failed"
          /\ CASE outcome = "written" ->
                    /\ trace' = trace \o <<"open", "write">>
                    /\ fs' = [fs EXCEPT ![argv.output] =
                                File(Document(writer.pages, writer.meta,
                                              writer.encrypted, writer.upw, writer.opw))]
                    /\ pc' = "return"
                    /\ exc' = NoExc
               [] outcome = "open failed" ->
                    /\ trace' = Append(trace, "open")
                    /\ fs' = fs
                    /\ pc' = "raised"
                    /\ exc' = Raise("OSError", "Failed to write output file")
               [] outcome = "write failed" ->
                    /\ trace' = trace \o <<"open", "write">>
                    /\ fs' = [fs EXCEPT ![argv.output] = File(Bytes("partial"))]
                    /\ pc' = "raised"
                    /\ exc' = Raise("OSError", "Failed to write output file")
    /\ Frame({"fs", "trace"})

\* return {"input_file": ..., "output_file": ..., "pages_protected": total_pages, ...}
Return ==
    /\ pc = "return"
    /\ result' = [returned |-> TRUE, input_file |-> argv.input,
                  output_file |-> argv.output, pages_protected |-> total_pages]
    /\ pc' = "returned"
    /\ exc' = NoExc
    /\ Frame({"result"})

\* ------------------------------------------------------------------- main
\* parser.parse_args() on a command line naming input, output and password
ParseArgs ==
    /\ pc = "parse_args"
    /\ argv.mode = "run"
    /\ pc' = "validate_input_file"
    /\ UNCHANGED <<argv, fs, fs0, owner_password, reader, writer, total_pages, exc,
                   result, trace, stdout, stderr, exit_status, probe>>

\* parser.parse_args() ending the program itself: --version and --help print
\* and exit with status 0, a usage error prints to stderr and exits with 2
ParseArgsExit ==
    /\ pc = "parse_args"
    /\ argv.mode # "run"
    /\ IF argv.mode = "usage"
       THEN /\ stderr' = Append(stderr, [label |-> "usage", text |-> "usage"])
            /\ exit_status' = 2
            /\ UNCHANGED stdout
       ELSE /\ stdout' = Append(stdout, argv.mode)
            /\ exit_status' = 0
            /\ UNCHANGED stderr
    /\ pc' = "exited"
    /\ UNCHANGED <<argv, fs, fs0, owner_password, reader, writer, total_pages, exc,
                   result, trace, probe>>

\* if not args.quiet: print the report; then main returns, status 0
MainReport ==
    /\ pc = "returned"
    /\ stdout' = IF argv.quiet THEN stdout ELSE Append(stdout, "report")
    /\ exit_status' = 0
    /\ pc' = "exited"
    /\ UNCHANGED <<argv, fs, fs0, owner_password, reader, writer, total_pages, exc,
                   result, trace, stderr, probe>>

\* main with sys.exit(1) missing from the processing-error clause
ExceptClauseFallingThrough(e) ==
    IF IsInstance(e, "FileNotFoundError") THEN [label |-> "File Error", status |-> 1]
    ELSE IF IsInstance(e, "PermissionError")
         THEN [label |-> "Permission Error", status |-> 1]
    ELSE IF IsInstance(e, "ValueError") THEN [label |-> "Validation Error", status |-> 1]
    ELSE IF IsInstance(e, "RuntimeError") \/ IsInstance(e, "OSError")
         THEN [label |-> "Processing Error", status |-> 0]
    ELSE [label |-> "Unexpected Error", status |-> 1]

\* The except clauses of main, tried in order: the message's label and the
\* status given to sys.exit
ExceptClause(e) ==
    IF IsInstance(e, "FileNotFoundError") THEN [label |-> "File Error", status |-> 1]
    ELSE IF IsInstance(e, "PermissionError")
         THEN [label |-> "Permission Error", status |-> 1]
    ELSE IF IsInstance(e, "ValueError") THEN [label |-> "Validation Error", status |-> 1]
    ELSE IF IsInstance(e, "RuntimeError") \/ IsInstance(e, "OSError")
         THEN [label |-> "Processing Error", status |-> 1]
    ELSE [label |-> "Unexpected Error", status |-> 1]

\* except ... as e: print(..., file=sys.stderr); sys.exit(1)
MainExcept ==
    /\ pc = "raised"
    /\ stderr' = Append(stderr, [label |-> ExceptClause(exc).label, text |-> exc.msg])
    /\ exit_status' = ExceptClause(exc).status
    /\ pc' = "exited"
    /\ UNCHANGED <<argv, fs, fs0, owner_password, reader, writer, total_pages, exc,
                   result, trace, stdout, probe>>

Next ==
    \/ ParseArgs
    \/ ParseArgsExit
    \/ ValidateInput
    \/ ValidateOutput
    \/ ValidateUserPassword
    \/ OwnerPassword
    \/ ReadPdf
    \/ CheckEncrypted
    \/ CountPages
    \/ AddPage
    \/ AddMetadata
    \/ Encrypt
    \/ WriteOutput
    \/ Return
    \/ MainReport
    \/ MainExcept

Spec == Init /\ [][Next]_vars

\* ----------------------------------------- the validators called on their own
ProbeChars == {"x", "7"}
ProbePasswords == UNION {[1..n -> ProbeChars] : n \in 0..MaxProbeLen}

ProbeNames ==
    {NameLower, NameUpper, NameText,
     <<"a", ".", "P", "d", "f">>,
     <<".", "p", "d", "f">>,
     <<"d", "o", "c">>,
     <<"a", "p", "d", "f">>,
     <<"a", ".", "p", "d">>,
     <<"a", ".", "p", "d", "f", ".">>,
     <<"a", ".", "p", "d", "f", ".", "t", "x", "t">>,
     <<"a", ".", "t", "x", "t", ".", "p", "d", "f">>}

ProbePaths == [dir : Dirs, name : ProbeNames]
ProbeNodes == {Absent, Directory, File(Bytes("empty")), File(StaleDocument)}

ProbeArgs(paths, passwords) ==
    [mode : {"probe"}, input : paths, output : paths, password : passwords,
     owner : {NoOwner}, quiet : {FALSE}]

InitValidate ==
    /\ argv \in ProbeArgs(ProbePaths, {<<>>})
    /\ argv.output = argv.input
    /\ \E node \in ProbeNodes :
          fs = Filesystem({argv.input}, argv.input, node, argv.input, node)
    /\ WellFormed(fs)
    /\ fs0 = fs
    /\ pc = "probe"
    /\ Locals

InitPassword ==
    /\ argv \in ProbeArgs({[dir |-> "work", name |-> NameLower]}, ProbePasswords)
    /\ fs = Filesystem({argv.input}, argv.input, Absent, argv.input, Absent)
    /\ fs0 = fs
    /\ pc = "probe"
    /\ Locals

ProbeFrame ==
    UNCHANGED <<argv, fs, fs0, pc, owner_password, reader, writer, total_pages, exc,
                result, trace, stdout, stderr, exit_status>>

\* validate_input_file(file_path)
CallValidateInputFile ==
    /\ pc = "probe"
    /\ "input" \notin probe.called
    /\ probe' = [probe EXCEPT !.input = validate_input_file(fs, argv.input),
                              !.called = @ \cup {"input"}]
    /\ ProbeFrame

\* validate_output_path(file_path)
CallValidateOutputPath ==
    /\ pc = "probe"
    /\ "output" \notin probe.called
    /\ probe' = [probe EXCEPT !.output = validate_output_path(argv.output),
                              !.called = @ \cup {"output"}]
    /\ ProbeFrame

\* validate_password(password)
CallValidatePassword ==
    /\ pc = "probe"
    /\ "password" \notin probe.called
    /\ probe' = [probe EXCEPT !.password = validate_password(argv.password),
                              !.called = @ \cup {"password"}]
    /\ ProbeFrame

NextValidate == CallValidateInputFile \/ CallValidateOutputPath
NextPassword == CallValidatePassword

SpecValidate == InitValidate /\ [][NextValidate]_vars
SpecPassword == InitPassword /\ [][NextPassword]_vars

\* ============================================================= properties
Calls == {trace[i] : i \in 1..Len(trace)}
Running == argv.mode = "run"
Ended == pc \in {"raised", "exited"}
BeforeRead ==
    {"parse_args", "validate_input_file", "validate_output_path", "validate_password",
     "owner_password"}

AlreadyEncryptedError == Raise("ValueError", "The input PDF is already encrypted")
NoPagesError == Raise("ValueError", "The PDF file has no pages")

\* C1: when the parsed input document reports is_encrypted, protect_pdf ends
\* with the already-encrypted ValueError, returns nothing, and the output
\* path is never opened or written: the filesystem is as it was.
C1_EncryptedInputRejectedBeforeWrite ==
    (Running /\ reader.doc.fmt = "pdf" /\ reader.doc.encrypted) =>
        /\ pc \in {"is_encrypted", "raised", "exited"}
        /\ Ended => exc = AlreadyEncryptedError
        /\ ~result.returned
        /\ "open" \notin Calls /\ "write" \notin Calls
        /\ fs = fs0

C1_Witness ==
    /\ Running /\ reader.doc.fmt = "pdf" /\ reader.doc.encrypted
    /\ pc = "exited" /\ exc = AlreadyEncryptedError
    /\ fs0[argv.output] = File(StaleDocument)

\* C2: writer.encrypt(user_password, owner_password) has been called before
\* the output is opened for writing, the document about to be written is
\* encrypted with those passwords, and whenever protect_pdf has returned a
\* result the output file exists and holds an encrypted document.
C2_EncryptBeforeWrite ==
    /\ \A i \in 1..Len(trace) :
          trace[i] = "open" => \E j \in 1..(i - 1) : trace[j] = "encrypt"
    /\ pc = "write" =>
          /\ writer.encrypted
          /\ writer.upw = argv.password
          /\ writer.opw = owner_password.pw
    /\ result.returned =>
          /\ fs[argv.output].kind = "file"
          /\ fs[argv.output].data.fmt = "pdf"
          /\ fs[argv.output].data.encrypted
          /\ fs[argv.output].data.upw = argv.password

C2_Witness ==
    /\ result.returned
    /\ fs0[argv.output] = File(StaleDocument)
    /\ fs[argv.output].data.encrypted
    /\ trace = <<"PdfReader", "encrypt", "open", "write">>

\* C3: the document written holds exactly the input's pages in their order,
\* and pages_protected is their number N >= 1.
C3_PagesCopiedInOrder ==
    (pc = "return" \/ result.returned) =>
        /\ fs[argv.output].data.pages = fs0[argv.input].data.pages
        /\ Len(fs0[argv.input].data.pages) >= 1
        /\ result.returned =>
              result.pages_protected = Len(fs0[argv.input].data.pages)

C3_Witness ==
    /\ result.returned
    /\ fs0[argv.input].data.pages = <<2, 1>>
    /\ fs[argv.output].data.pages = <<2, 1>>
    /\ result.pages_protected = 2

\* C4: a supplied owner password, the empty string included, is checked by
\* validate_password, so protect_pdf raises its ValueError when it is empty
\* or shorter than 4; the owner password is replaced by the user password
\* only when none was supplied.
C4_SuppliedOwnerPasswordChecked ==
    (/\ Running
     /\ pc \notin BeforeRead
     /\ validate_input_file(fs0, argv.input) = NoExc
     /\ validate_output_path(argv.output) = NoExc
     /\ validate_password(argv.password) = NoExc) =>
        IF argv.owner.supplied
        THEN /\ owner_password = argv.owner
             /\ Len(argv.owner.pw) < 4 =>
                   Ended /\ exc = validate_password(argv.owner.pw)
        ELSE owner_password.pw = argv.password

\* The outcome of the four argument checks taken in the order input path,
\* output path, user password, owner password: the first error among them.
FirstFailingCheck ==
    LET checks ==
            <<validate_input_file(fs0, argv.input),
              validate_output_path(argv.output),
              validate_password(argv.password),
              IF Truthy(argv.owner) THEN validate_password(argv.owner.pw) ELSE NoExc>>
        failing == {i \in 1..4 : checks[i] # NoExc}
    IN  IF failing = {} THEN NoExc
        ELSE checks[CHOOSE i \in failing : \A j \in failing : i <= j]

LacksPdfSuffix(name) ==
    \/ Len(name) < 4
    \/ Lower(SubSeq(name, Len(name) - 3, Len(name))) # DotPdf

BothCalled == {"input", "output"} \subseteq probe.called

\* C6 as stated: for a path lacking a case-insensitive .pdf suffix both
\* validate_input_file and validate_output_path raise ValueError, whatever
\* else is true of the path.
C6_NoPdfSuffixIsValueError ==
    (BothCalled /\ LacksPdfSuffix(argv.input.name)) =>
        /\ probe.input.kind = "ValueError"
        /\ probe.output.kind = "ValueError"

\* C6 amended: for a path lacking a case-insensitive .pdf suffix,
\* validate_output_path raises ValueError whatever else is true of the path,
\* and validate_input_file raises ValueError when the path exists and
\* FileNotFoundError when it does not.
C6_NoPdfSuffixRejected ==
    LacksPdfSuffix(argv.input.name) =>
        /\ "output" \in probe.called => probe.output.kind = "ValueError"
        /\ "input" \in probe.called =>
              probe.input.kind = IF Exists(fs, argv.input) THEN "ValueError"
                                 ELSE "FileNotFoundError"

C6_Witness ==
    /\ BothCalled
    /\ argv.input.name = NameText
    /\ fs[argv.input] = File(StaleDocument)
    /\ DirWritable(argv.input.dir)
    /\ probe.input.kind = "ValueError"
    /\ probe.output.kind = "ValueError"

\* C7: validate_password raises ValueError for every password of 0 to 3
\* characters (the empty one reported as empty, the others as too short) and
\* accepts every password of 4 characters or more, whatever its characters.
C7_PasswordLengthRule ==
    "password" \in probe.called =>
        LET n == Len(argv.password)
        IN  /\ n = 0 => probe.password = Raise("ValueError", "Password cannot be empty.")
            /\ n \in 1..3 =>
                  probe.password =
                      Raise("ValueError", "Password must be at least 4 characters long.")
            /\ n >= 4 => probe.password = NoExc

C7_Witness ==
    /\ "password" \in probe.called
    /\ argv.password = <<"7", "x", "7", "x">>
    /\ probe.password = NoExc

\* The category main's message names, by the class of the error
Category(e) ==
    CASE e.kind = "FileNotFoundError" -> "File Error"
      [] e.kind = "PermissionError"   -> "Permission Error"
      [] e.kind = "ValueError"        -> "Validation Error"
      [] e.kind \in {"RuntimeError", "OSError"} -> "Processing Error"
      [] OTHER -> "Unexpected Error"

ErrorReported ==
    /\ exit_status = 1
    /\ stderr = <<[label |-> Category(exc), text |-> exc.msg]>>
    /\ stdout = <<>>

SuccessReported ==
    /\ exit_status = 0
    /\ stderr = <<>>
    /\ stdout = IF argv.quiet THEN <<>> ELSE <<"report">>

C9_NoEffectBeforeSerialization ==
    /\ "open" \notin Calls => fs = fs0
    /\ (/\ Running
        /\ reader.doc.fmt = "pdf" /\ ~reader.doc.encrypted
        /\ reader.doc.pages = <<>>
        /\ pc \notin {"is_encrypted", "total_pages"}) =>
            /\ Ended
            /\ exc = NoPagesError
            /\ "open" \notin Calls

C9_Witness ==
    /\ pc = "exited"
    /\ exc = NoPagesError
    /\ fs0[argv.output] = File(StaleDocument)
    /\ fs = fs0

\* C10: the input file's content after protect_pdf, successful or failed, is
\* its content before, also when input and output name the same file.
C10_InputFileUnchanged ==
    (Running /\ (Ended \/ result.returned)) => fs[argv.input] = fs0[argv.input]

====
